---- MODULE Spec2Model ----
(***************************************************************************)
(* Destination-driven code generator for Z80 (compiler/ddcg-test/z80/      *)
(* compile.py).  The generator is a recursive walk over an S-expression    *)
(* tree that threads a data destination dd and a control destination cd    *)
(* and appends lines to an assembly listing.                               *)
(*                                                                         *)
(* Text (tokens, label names, operands) is a sequence of one-character     *)
(* strings, so that "L{}".format(100) and the token L100 are the same      *)
(* value exactly when Python's strings are equal.                          *)
(*                                                                         *)
(* A tree node is a record: an atom [k |-> "atom", tok |-> text] or a      *)
(* proper list [k |-> "pair", items |-> <<car, cadr, ...>>]; nil is the    *)
(* empty items sequence.  Names (of variables and subroutines) are atoms.  *)
(*                                                                         *)
(* The generator's mutable state is the record                            *)
(*   st = [listing, globals, next_label, err]                              *)
(* where err records that a Python exception was raised: the exception     *)
(* unwinds every enclosing call, so every operator leaves an err state     *)
(* unchanged.                                                              *)
(***************************************************************************)
EXTENDS Integers, Sequences, FiniteSets, TLC

VARIABLES pc, nforms, listing, globals, next_label, err, branches, call

vars == <<pc, nforms, listing, globals, next_label, err, branches, call>>

\* ---------------------------------------------------------------- constants
DD_A == 0
DD_BC == 1
DD_DE == 2
DD_HL == 3
DD_TMP == 4
DD_ZFLAG == 5
DD_B == 6

CD_RET == 0
CD_NEXT == 1
CD_LABEL == 100

\* A control destination is <<n>> (CD_RET, CD_NEXT or a label id) or the
\* Python tuple (true_branch, false_branch), <<t, f>>.
Cd(n) == <<n>>

\* ---------------------------------------------------------------- text
Digits == <<"0", "1", "2", "3", "4", "5", "6", "7", "8", "9">>

\* "{}".format(n) for a Python int
RECURSIVE DecNat(_)
DecNat(n) == IF n < 10 THEN <<Digits[n + 1]>>
             ELSE DecNat(n \div 10) \o <<Digits[(n % 10) + 1]>>

Dec(n) == IF n < 0 THEN <<"-">> \o DecNat(-n) ELSE DecNat(n)

\* "L{}".format(l) for an int label
LabelText(l) == <<"L">> \o Dec(l)

\* "{},{}".format(a, b)
Comma(a, b) == a \o <<",">> \o b

\* "({})".format(a)
Paren(a) == <<"(">> \o a \o <<")">>

starts_with_decimal_digit(t) ==
    t[1] \in {"0", "1", "2", "3", "4", "5", "6", "7", "8", "9"}

DigitVal(c) ==
    CASE c = "0" -> 0 [] c = "1" -> 1 [] c = "2" -> 2 [] c = "3" -> 3
      [] c = "4" -> 4 [] c = "5" -> 5 [] c = "6" -> 6 [] c = "7" -> 7
      [] c = "8" -> 8 [] c = "9" -> 9
      [] c \in {"a", "A"} -> 10 [] c \in {"b", "B"} -> 11
      [] c \in {"c", "C"} -> 12 [] c \in {"d", "D"} -> 13
      [] c \in {"e", "E"} -> 14 [] c \in {"f", "F"} -> 15
      [] OTHER -> 99

RECURSIVE DigitsValue(_, _, _)
DigitsValue(s, base, acc) ==
    IF s = <<>> THEN acc
    ELSE DigitsValue(Tail(s), base, acc * base + DigitVal(s[1]))

\* Python's int(s, base) on tokens made of digits and letters: a ValueError
\* (ok = FALSE) on an empty string or a digit outside the base; the base's own
\* 0x / 0o / 0b prefix is accepted.
PyInt(s, base) ==
    LET pre == IF base = 16 THEN {"x", "X"}
               ELSE IF base = 8 THEN {"o", "O"}
               ELSE IF base = 2 THEN {"b", "B"} ELSE {}
        body == IF Len(s) >= 2 /\ s[1] = "0" /\ s[2] \in pre
                THEN SubSeq(s, 3, Len(s)) ELSE s
        good == body # <<>> /\ \A i \in 1..Len(body) : DigitVal(body[i]) < base
    IN  [ok |-> good, n |-> IF good THEN DigitsValue(body, base, 0) ELSE 0]

\* ok = FALSE stands for the ValueError raised and for the None returned
\* (every caller then fails on the None).
to_number(t) ==
    IF Len(t) >= 1 THEN
        IF t[1] = "0" THEN
            IF Len(t) >= 3 /\ t[2] \in {"x", "X"} THEN PyInt(SubSeq(t, 3, Len(t)), 16)
            ELSE IF Len(t) >= 3 /\ t[2] \in {"o", "O"} THEN PyInt(SubSeq(t, 3, Len(t)), 8)
            ELSE IF Len(t) >= 3 /\ t[2] \in {"b", "B"} THEN PyInt(SubSeq(t, 3, Len(t)), 2)
            ELSE PyInt(t, 8)
        ELSE IF t[1] \in {"1", "2", "3", "4", "5", "6", "7", "8", "9"} THEN PyInt(t, 10)
        ELSE [ok |-> FALSE, n |-> 0]
    ELSE [ok |-> FALSE, n |-> 0]

\* ---------------------------------------------------------------- tree
Atom(t) == [k |-> "atom", tok |-> t, items |-> <<>>]
List(xs) == [k |-> "pair", tok |-> <<>>, items |-> xs]

is_pair(node) == node.k = "pair"

\* node.car == 'sym' (a pair never equals a string)
IsSym(node, t) == node.k = "atom" /\ node.tok = t

InSeq(x, s) == \E i \in 1..Len(s) : s[i] = x

\* ---------------------------------------------------------------- state
Raise(st) == [st EXCEPT !.err = TRUE]

\* the value make_label returns when called in state st
NewLabel(st) == st.next_label + 1

\* make_label returning the incremented value without storing it
make_label_not_stored(st) == st

make_label(st) ==
    IF st.err THEN st ELSE [st EXCEPT !.next_label = st.next_label + 1]

LabelLine(name) == [kind |-> "label", mnem |-> "", text |-> name]
InsLine(mnem, oper) == [kind |-> "ins", mnem |-> mnem, text |-> oper]

\* l is a text (an int label is passed as LabelText(l)); <<>> is None
cg_emit_label(l, st) ==
    IF st.err \/ l = <<>> THEN st
    ELSE [st EXCEPT !.listing = Append(st.listing, LabelLine(l))]

\* oper <<>> is None or the empty operand: both render as ""
asm(label, mnem, oper, st) ==
    IF st.err THEN st
    ELSE LET s1 == cg_emit_label(label, st)
         IN  [s1 EXCEPT !.listing = Append(s1.listing, InsLine(mnem, oper))]

HasReg(dd) == dd \in {DD_A, DD_B, DD_BC, DD_DE, DD_HL}

to_reg(dd) ==
    CASE dd = DD_A -> <<"A">>
      [] dd = DD_B -> <<"B">>
      [] dd = DD_BC -> <<"B", "C">>
      [] dd = DD_DE -> <<"D", "E">>
      [] dd = DD_HL -> <<"H", "L">>
      [] OTHER -> <<>>

\* to_reg(dd)[0] and to_reg(dd)[1]; RegOk says the index exists
RegHi(dd) == <<to_reg(dd)[1]>>
RegLo(dd) == <<to_reg(dd)[2]>>
RegOk(dd) == Len(to_reg(dd)) = 2

RECURSIVE cg_goto(_, _)
cg_goto(cd, st) ==
    IF st.err THEN st
    ELSE IF Len(cd) = 2 THEN
        LET true_branch == cd[1]
            false_branch == cd[2]
            s == [st EXCEPT !.branches = @ \cup {cd}]
        IN  IF true_branch = CD_NEXT THEN
                IF false_branch = CD_NEXT THEN s
                ELSE IF false_branch = CD_RET THEN asm(<<>>, "RET", <<"Z">>, s)
                ELSE asm(<<>>, "JP", Comma(<<"Z">>, LabelText(false_branch)), s)
            ELSE IF true_branch = CD_RET THEN
                IF false_branch = CD_NEXT THEN asm(<<>>, "RET", <<"N", "Z">>, s)
                ELSE IF false_branch = CD_RET THEN cg_goto(Cd(CD_RET), s)
                ELSE cg_goto(Cd(false_branch), asm(<<>>, "RET", <<"N", "Z">>, s))
            ELSE s
    ELSE IF cd[1] = CD_NEXT THEN st
    ELSE IF cd[1] = CD_RET THEN asm(<<>>, "RET", <<>>, st)
    ELSE IF cd[1] >= CD_LABEL THEN asm(<<>>, "JP", LabelText(cd[1]), st)
    ELSE Raise(st)

cg_push_hl(st) == asm(<<>>, "PUSH", <<"H", "L">>, st)

\* cg_pop_de emitting the line of cg_push_de
cg_pop_de_as_push(st) == asm(<<>>, "PUSH", <<"D", "E">>, st)

cg_pop_de(st) == asm(<<>>, "POP", <<"D", "E">>, st)

cg_op_pair(op1, op2, dd, ds, st) ==
    IF st.err THEN st
    ELSE IF ~HasReg(ds) \/ ~HasReg(dd) \/ ~RegOk(dd) \/ ~RegOk(ds) THEN Raise(st)
    ELSE asm(<<>>, op2, Comma(RegHi(dd), RegHi(ds)),
             asm(<<>>, op1, Comma(RegLo(dd), RegLo(ds)), st))

\* n is the text of the immediate: Dec(n) of a number, or a name
cg_ld16(dd, n, st) ==
    IF st.err THEN st
    ELSE IF ~HasReg(dd) THEN Raise(st)
    ELSE asm(<<>>, "LD", Comma(to_reg(dd), n), st)

cg_ld16_r16(dd, ds, st) ==
    IF st.err \/ ds = dd THEN st
    ELSE IF dd # DD_A THEN cg_op_pair("LD", "LD", dd, ds, st)
    ELSE IF ~RegOk(ds) THEN Raise(st)
    ELSE asm(<<>>, "LD", Comma(<<"A">>, RegLo(ds)), st)

RECURSIVE cg_ld16_gv(_, _, _)
cg_ld16_gv(dd, t, st) ==
    IF st.err THEN st
    ELSE IF dd = DD_B THEN asm(<<>>, "LD", <<"B", ",", "A">>, cg_ld16_gv(DD_A, t, st))
    ELSE IF ~HasReg(dd) THEN Raise(st)
    ELSE asm(<<>>, "LD", Comma(to_reg(dd), Paren(t)), st)

cg_call_libfn(fn_name, cd, st) ==
    IF st.err THEN st
    ELSE IF cd # Cd(CD_RET) THEN cg_goto(cd, asm(<<>>, "CALL", fn_name, st))
    ELSE asm(<<>>, "JP", fn_name, st)

\* ---------------------------------------------------------------- operators
cg_op16(dd, ds1, ds2, cd, op1, op2, st) ==
    IF st.err THEN st
    ELSE IF ~RegOk(ds1) \/ ~RegOk(ds2) THEN Raise(st)
    ELSE LET s1 == asm(<<>>, "LD", Comma(<<"A">>, RegLo(ds1)), st)
             s2 == asm(<<>>, op1, Comma(<<"A">>, RegLo(ds2)), s1)
             s3 == asm(<<>>, "LD", Comma(RegLo(dd), <<"A">>), s2)
             s4 == asm(<<>>, "LD", Comma(<<"A">>, RegHi(ds1)), s3)
             s5 == asm(<<>>, op2, Comma(<<"A">>, RegHi(ds2)), s4)
             s6 == asm(<<>>, "LD", Comma(RegHi(dd), <<"A">>), s5)
         IN  IF dd = DD_A THEN cg_goto(cd, s2)
             ELSE IF ~RegOk(dd) THEN Raise(s2)
             ELSE cg_goto(cd, s6)

\* the inner function of cg_add; it closes over cg_add's dd, ds1, ds2, cd
do_add(d, a, b, dd, ds1, ds2, cd, st) ==
    IF (d = DD_HL) /\ (a = DD_HL)
    THEN asm(<<>>, "ADD", Comma(<<"H", "L">>, to_reg(b)), st)
    ELSE cg_op16(dd, ds1, ds2, cd, "ADD", "ADC", st)

cg_add(dd, ds1, ds2, cd, st) ==
    IF st.err THEN st
    ELSE IF (dd = DD_HL) /\ (ds2 = DD_HL)
         THEN cg_goto(cd, do_add(dd, ds2, ds1, dd, ds1, ds2, cd, st))
         ELSE cg_goto(cd, do_add(dd, ds1, ds2, dd, ds1, ds2, cd, st))

cg_bit_and(dd, ds1, ds2, cd, st) == cg_op16(dd, ds1, ds2, cd, "AND", "AND", st)

cg_bit_or(dd, ds1, ds2, cd, st) == cg_op16(dd, ds1, ds2, cd, "OR", "OR", st)

cg_bit_xor(dd, ds1, ds2, cd, st) == cg_op16(dd, ds1, ds2, cd, "XOR", "XOR", st)

cg_subtract(dd, ds1, ds2, cd, st) == cg_op16(dd, ds1, ds2, cd, "SUB", "SBC", st)

\* "<prefix>_{}_{}".format(to_reg(ds1), to_reg(ds2))
LibName(prefix, ds1, ds2) == prefix \o <<"_">> \o to_reg(ds1) \o <<"_">> \o to_reg(ds2)

cg_divide(dd, ds1, ds2, cd, st) ==
    cg_ld16_r16(dd, DD_HL,
        cg_call_libfn(LibName(<<"d", "i", "v", "i", "d", "e">>, ds1, ds2), cd, st))

cg_multiply(dd, ds1, ds2, cd, st) ==
    cg_ld16_r16(dd, DD_HL,
        cg_call_libfn(LibName(<<"m", "u", "l", "t", "i", "p", "l", "y">>, ds1, ds2), cd, st))

\* op(dd, DD_HL, DD_DE, cd) for the bound method cg_binop was given
ApplyOp(op, dd, ds1, ds2, cd, st) ==
    CASE op = "+" -> cg_add(dd, ds1, ds2, cd, st)
      [] op = "-" -> cg_subtract(dd, ds1, ds2, cd, st)
      [] op = "*" -> cg_multiply(dd, ds1, ds2, cd, st)
      [] op = "/" -> cg_divide(dd, ds1, ds2, cd, st)
      [] op = "&" -> cg_bit_and(dd, ds1, ds2, cd, st)
      [] op = "|" -> cg_bit_or(dd, ds1, ds2, cd, st)
      [] op = "^" -> cg_bit_xor(dd, ds1, ds2, cd, st)

BinOps == {"+", "-", "*", "/", "&", "|", "^"}

\* ---------------------------------------------------------------- forms
RECURSIVE cg_form(_, _, _, _)

\* declare_variables without the "already defined" test
declare_one_unchecked(name, st) ==
    IF st.err THEN st
    ELSE asm(name, "DEFW", <<"0">>, [st EXCEPT !.globals = Append(st.globals, name)])

declare_one(name, st) ==
    IF st.err THEN st
    ELSE IF InSeq(name, st.globals) THEN Raise(st)
    ELSE asm(name, "DEFW", <<"0">>, [st EXCEPT !.globals = Append(st.globals, name)])

RECURSIVE declare_list(_, _)
declare_list(varlist, st) ==
    IF st.err \/ varlist = <<>> THEN st
    ELSE declare_list(Tail(varlist), declare_one(varlist[1].tok, st))

declare_variables(node, st) == declare_list(Tail(node.items), st)

\* cg_binop choosing its operand sequence by the shape of the second operand
binop_operands_by_second(node, st) ==
    IF is_pair(node.items[3]) THEN
        cg_pop_de(cg_form(node.items[2], DD_HL, Cd(CD_NEXT),
            cg_push_hl(cg_form(node.items[3], DD_HL, Cd(CD_NEXT), st))))
    ELSE
        cg_form(node.items[2], DD_HL, Cd(CD_NEXT),
            cg_form(node.items[3], DD_DE, Cd(CD_NEXT), st))

\* the two operand sequences of cg_binop, before op is applied
binop_operands(node, st) ==
    IF is_pair(node.items[2]) THEN
        cg_pop_de(cg_form(node.items[2], DD_HL, Cd(CD_NEXT),
            cg_push_hl(cg_form(node.items[3], DD_HL, Cd(CD_NEXT), st))))
    ELSE
        cg_form(node.items[2], DD_HL, Cd(CD_NEXT),
            cg_form(node.items[3], DD_DE, Cd(CD_NEXT), st))

cg_binop(op, node, dd, cd, st) ==
    IF st.err THEN st
    ELSE IF Len(node.items) < 3 THEN Raise(st)
    ELSE ApplyOp(op, dd, DD_HL, DD_DE, cd, binop_operands(node, st))

cg_set_var(node, dd, cd, st) ==
    IF st.err THEN st
    ELSE IF Len(node.items) < 3 THEN Raise(st)
    ELSE LET v == node.items[2].tok
             e == node.items[3]
             s1 == cg_form(e, DD_HL, Cd(CD_NEXT), st)
             s2 == asm(<<>>, "LD", Comma(Paren(v), <<"H", "L">>), s1)
         IN  cg_goto(cd, cg_ld16_r16(dd, DD_HL, s2))

RECURSIVE cg_statements(_, _, _, _)
cg_statements(node, dd, cd, st) ==
    IF st.err THEN st
    ELSE IF node = <<>> THEN cg_goto(cd, st)
    ELSE IF Tail(node) = <<>> THEN cg_form(node[1], dd, cd, st)
    ELSE cg_statements(Tail(node), dd, cd, cg_form(node[1], DD_HL, Cd(CD_NEXT), st))

cg_sub(node, dd, cd, st) ==
    IF st.err THEN st
    ELSE IF Len(node.items) < 2 THEN Raise(st)
    ELSE LET name == node.items[2].tok
             statements == SubSeq(node.items, 3, Len(node.items))
         IN  IF InSeq(name, st.globals) THEN Raise(st)
             ELSE cg_statements(statements, dd, cd,
                     cg_emit_label(name, [st EXCEPT !.globals = Append(st.globals, name)]))

\* cg_if without an alternate and without the fold into RET Z
if_two_branch_unfolded(pred, conseq, label_false, cd, st) ==
    cg_goto(cd,
      cg_emit_label(LabelText(label_false),
        cg_form(conseq, DD_HL, cd,
          cg_form(pred, DD_ZFLAG, <<CD_NEXT, label_false>>, st))))

\* cg_if without an alternate
if_two_branch(pred, conseq, label_false, cd, st) ==
    IF cd # Cd(CD_RET) THEN
        cg_goto(cd,
          cg_emit_label(LabelText(label_false),
            cg_form(conseq, DD_HL, cd,
              cg_form(pred, DD_ZFLAG, <<CD_NEXT, label_false>>, st))))
    ELSE
        cg_form(conseq, DD_HL, cd,
          cg_form(pred, DD_ZFLAG, <<CD_NEXT, cd[1]>>, st))

\* cg_if with an alternate building its branch as (label_false, CD_NEXT)
if_three_branch_swapped(pred, conseq, alter, label_false, label_end, cd, st) ==
    LET p1 == cg_form(pred, DD_ZFLAG, <<label_false, CD_NEXT>>, st)
        p2 == cg_form(conseq, DD_HL, Cd(label_end), p1)
        p3 == cg_emit_label(LabelText(label_false), p2)
        p4 == cg_form(alter, DD_HL, Cd(CD_NEXT), p3)
        p5 == cg_emit_label(LabelText(label_end), p4)
    IN  cg_goto(cd, p5)

\* cg_if with an alternate
if_three_branch(pred, conseq, alter, label_false, label_end, cd, st) ==
    LET p1 == cg_form(pred, DD_ZFLAG, <<CD_NEXT, label_false>>, st)
        p2 == cg_form(conseq, DD_HL, Cd(label_end), p1)
        p3 == cg_emit_label(LabelText(label_false), p2)
        p4 == cg_form(alter, DD_HL, Cd(CD_NEXT), p3)
        p5 == cg_emit_label(LabelText(label_end), p4)
    IN  cg_goto(cd, p5)

cg_if(node, dd, cd, st) ==
    IF st.err THEN st
    ELSE LET label_false == NewLabel(st)
             s0 == make_label(st)
             label_end == NewLabel(s0)
             s1 == make_label(s0)
         IN  IF Len(node.items) < 3 THEN Raise(s1)
             ELSE IF Len(node.items) < 4
                  THEN if_two_branch(node.items[2], node.items[3], label_false, cd, s1)
                  ELSE if_three_branch(node.items[2], node.items[3], node.items[4],
                                       label_false, label_end, cd, s1)

cg_address_of(node, dd, cd, st) ==
    IF st.err THEN st
    ELSE IF Len(node.items) < 2 THEN Raise(st)
    ELSE IF ~(node.items[2].k = "atom" /\ InSeq(node.items[2].tok, st.globals)) THEN Raise(st)
    ELSE cg_goto(cd, cg_ld16(dd, node.items[2].tok, st))

cg_highbyte(node, dd, cd, st) ==
    IF st.err THEN st
    ELSE IF Len(node.items) < 2 THEN Raise(st)
    ELSE cg_goto(cd,
           asm(<<>>, "LD", <<"H", ",", "0">>,
             asm(<<>>, "LD", <<"L", ",", "H">>,
               cg_form(node.items[2], DD_HL, Cd(CD_NEXT), st))))

cg_lowbyte(node, dd, cd, st) ==
    IF st.err THEN st
    ELSE IF Len(node.items) < 2 THEN Raise(st)
    ELSE cg_goto(cd,
           asm(<<>>, "LD", <<"H", ",", "0">>,
             cg_form(node.items[2], DD_HL, Cd(CD_NEXT), st)))

cg_shift_left(node, dd, cd, st) == cg_goto(cd, st)

RECURSIVE cg_input(_, _, _, _)
cg_input(node, dd, cd, st) ==
    IF st.err THEN st
    ELSE IF Len(node.items) < 3 THEN Raise(st)
    ELSE LET sz == node.items[2]
             addr == node.items[3]
             in_a == <<"A", ",", "(", "C", ")">>
         IN  IF IsSym(sz, <<"b", "y", "t", "e">>) THEN
                 IF ~HasReg(dd) THEN Raise(st)
                 ELSE LET s1 == cg_form(addr, DD_BC, Cd(CD_NEXT), st)
                          s2 == asm(<<>>, "IN", in_a, s1)
                      IN  IF dd = DD_A THEN cg_goto(cd, s2)
                          ELSE IF ~RegOk(dd) THEN Raise(s2)
                          ELSE cg_goto(cd,
                                 asm(<<>>, "LD", Comma(RegHi(dd), <<"0">>),
                                   asm(<<>>, "LD", Comma(RegLo(dd), <<"A">>), s2)))
             ELSE IF IsSym(sz, <<"w", "o", "r", "d">>) THEN
                 IF ~HasReg(dd) THEN Raise(st)
                 ELSE LET s1 == IF dd = DD_BC
                                THEN cg_goto(cd,
                                       asm(<<>>, "LD", <<"C", ",", "L">>,
                                         asm(<<>>, "LD", <<"B", ",", "H">>,
                                           cg_input(node, DD_HL, Cd(CD_NEXT), st))))
                                ELSE cg_form(addr, DD_BC, Cd(CD_NEXT), st)
                          s2 == asm(<<>>, "IN", in_a, s1)
                      IN  IF dd = DD_A THEN cg_goto(cd, s2)
                          ELSE IF ~RegOk(dd) THEN Raise(s2)
                          ELSE LET s3 == asm(<<>>, "LD", Comma(RegLo(dd), <<"A">>), s2)
                                   s4 == asm(<<>>, "INC", <<"B", "C">>, s3)
                                   s5 == asm(<<>>, "IN", in_a, s4)
                                   s6 == asm(<<>>, "LD", Comma(RegHi(dd), <<"A">>), s5)
                               IN  cg_goto(cd, s6)
             ELSE Raise(st)

\* the five lines that store DE through the pointer register: ptr is "HL"
\* with LD (HL),A in cg_poke and "BC" with OUT (C),A in cg_output
store_word(mnem, dst, ptr, st) ==
    LET s1 == asm(<<>>, "LD", <<"A", ",", "E">>, st)
        s2 == asm(<<>>, mnem, dst, s1)
        s3 == asm(<<>>, "INC", ptr, s2)
        s4 == asm(<<>>, "LD", <<"A", ",", "D">>, s3)
    IN  asm(<<>>, mnem, dst, s4)

cg_output(node, dd, cd, st) ==
    IF st.err THEN st
    ELSE IF Len(node.items) < 4 THEN Raise(st)
    ELSE LET sz == node.items[2]
             addr == node.items[3]
             datum == node.items[4]
             out_a == <<"(", "C", ")", ",", "A">>
         IN  IF IsSym(sz, <<"b", "y", "t", "e">>) THEN
                 cg_goto(cd,
                   asm(<<>>, "OUT", out_a,
                     cg_form(datum, DD_A, Cd(CD_NEXT),
                       cg_form(addr, DD_BC, Cd(CD_NEXT), st))))
             ELSE IF IsSym(sz, <<"w", "o", "r", "d">>) THEN
                 LET s1 == IF ~is_pair(addr)
                           THEN cg_form(addr, DD_BC, Cd(CD_NEXT),
                                  cg_form(datum, DD_DE, Cd(CD_NEXT), st))
                           ELSE cg_pop_de(
                                  cg_form(addr, DD_BC, Cd(CD_NEXT),
                                    cg_push_hl(
                                      cg_form(datum, DD_HL, Cd(CD_NEXT), st))))
                 IN  cg_goto(cd, store_word("OUT", out_a, <<"B", "C">>, s1))
             ELSE Raise(st)

cg_peek(node, dd, cd, st) ==
    IF st.err THEN st
    ELSE IF Len(node.items) < 3 THEN Raise(st)
    ELSE LET sz == node.items[2]
             addr == node.items[3]
         IN  IF IsSym(sz, <<"b", "y", "t", "e">>) THEN
                 IF ~HasReg(dd) THEN Raise(st)
                 ELSE LET s1 == cg_form(addr, DD_HL, Cd(CD_NEXT), st)
                      IN  IF dd = DD_A
                          THEN cg_goto(cd, asm(<<>>, "LD", <<"A", ",", "(", "H", "L", ")">>, s1))
                          ELSE IF s1.err THEN s1
                          ELSE IF ~RegOk(dd) THEN Raise(s1)
                          ELSE cg_goto(cd,
                                 asm(<<>>, "LD", Comma(RegHi(dd), <<"0">>),
                                   asm(<<>>, "LD", Comma(RegLo(dd), <<"(", "H", "L", ")">>), s1)))
             ELSE IF IsSym(sz, <<"w", "o", "r", "d">>) THEN
                 IF ~HasReg(dd) THEN Raise(st)
                 ELSE LET src == IF dd = DD_HL THEN <<"D", "E">> ELSE <<"H", "L">>
                          s1 == IF dd = DD_HL
                                THEN cg_form(addr, DD_DE, Cd(CD_NEXT), st)
                                ELSE cg_form(addr, DD_HL, Cd(CD_NEXT), st)
                      IN  IF dd = DD_A
                          THEN cg_goto(cd, asm(<<>>, "LD", Comma(<<"A">>, Paren(src)), s1))
                          ELSE IF s1.err THEN s1
                          ELSE IF ~RegOk(dd) THEN Raise(s1)
                          ELSE LET s2 == asm(<<>>, "LD", Comma(RegLo(dd), Paren(src)), s1)
                                   s3 == asm(<<>>, "INC", src, s2)
                               IN  cg_goto(cd, asm(<<>>, "LD", Comma(RegHi(dd), Paren(src)), s3))
             ELSE Raise(st)

cg_poke(node, dd, cd, st) ==
    IF st.err THEN st
    ELSE IF Len(node.items) < 4 THEN Raise(st)
    ELSE LET sz == node.items[2]
             addr == node.items[3]
             datum == node.items[4]
             st_a == <<"(", "H", "L", ")", ",", "A">>
         IN  IF IsSym(sz, <<"b", "y", "t", "e">>) THEN
                 cg_goto(cd,
                   asm(<<>>, "LD", st_a,
                     cg_form(datum, DD_A, Cd(CD_NEXT),
                       cg_form(addr, DD_HL, Cd(CD_NEXT), st))))
             ELSE IF IsSym(sz, <<"w", "o", "r", "d">>) THEN
                 LET s1 == IF ~is_pair(addr)
                           THEN cg_form(addr, DD_HL, Cd(CD_NEXT),
                                  cg_form(datum, DD_DE, Cd(CD_NEXT), st))
                           ELSE cg_pop_de(
                                  cg_form(addr, DD_HL, Cd(CD_NEXT),
                                    cg_push_hl(
                                      cg_form(datum, DD_HL, Cd(CD_NEXT), st))))
                 IN  cg_goto(cd, store_word("LD", st_a, <<"H", "L">>, s1))
             ELSE Raise(st)

\* do_variable_shift with the closing cg_emit_label(skipahead) left out
do_variable_shift_noskip(cnt, literal, st) ==
    IF st.err THEN st
    ELSE LET loopback == NewLabel(st)
             s0 == make_label(st)
             s1 == cg_form(cnt, DD_B, Cd(CD_NEXT), s0)
             skipahead == NewLabel(s1)
             s2 == IF literal THEN s1
                   ELSE asm(<<>>, "JZ", LabelText(skipahead),
                          asm(<<>>, "OR", <<"A", ",", "A">>,
                            asm(<<>>, "LD", <<"A", ",", "B">>, make_label(s1))))
             s3 == asm(LabelText(loopback), "SRL", <<"H">>, s2)
             s4 == asm(<<>>, "RL", <<"L">>, s3)
         IN  asm(<<>>, "DJNZ", LabelText(loopback), s4)

\* the nested function of cg_shift_right_logical; literal says n_cnt is not None
do_variable_shift(cnt, literal, st) ==
    IF st.err THEN st
    ELSE LET loopback == NewLabel(st)
             s0 == make_label(st)
             s1 == cg_form(cnt, DD_B, Cd(CD_NEXT), s0)
             skipahead == NewLabel(s1)
             s2 == IF literal THEN s1
                   ELSE asm(<<>>, "JZ", LabelText(skipahead),
                          asm(<<>>, "OR", <<"A", ",", "A">>,
                            asm(<<>>, "LD", <<"A", ",", "B">>, make_label(s1))))
             s3 == asm(LabelText(loopback), "SRL", <<"H">>, s2)
             s4 == asm(<<>>, "RL", <<"L">>, s3)
             s5 == asm(<<>>, "DJNZ", LabelText(loopback), s4)
         IN  IF literal THEN s5 ELSE cg_emit_label(LabelText(skipahead), s5)

\* for x in range(n): SRL H; RL L
RECURSIVE unrolled_shift(_, _)
unrolled_shift(n, st) ==
    IF n <= 0 THEN st
    ELSE unrolled_shift(n - 1, asm(<<>>, "RL", <<"L">>, asm(<<>>, "SRL", <<"H">>, st)))

\* cg_shift_right_logical unrolling only up to a count of 3
cg_shift_right_logical_unroll3(node, dd, cd, st) ==
    IF st.err THEN st
    ELSE IF Len(node.items) < 3 THEN Raise(st)
    ELSE LET e == node.items[2]
             cnt == node.items[3]
         IN  IF is_pair(cnt) THEN Raise(st)
             ELSE LET literal == starts_with_decimal_digit(cnt.tok)
                      n_cnt == to_number(cnt.tok)
                  IN  IF literal /\ ~n_cnt.ok THEN Raise(st)
                      ELSE LET s1 == cg_form(e, DD_HL, Cd(CD_NEXT), st)
                               s2 == IF ~literal THEN do_variable_shift(cnt, FALSE, s1)
                                     ELSE IF n_cnt.n > 3 THEN do_variable_shift(cnt, TRUE, s1)
                                     ELSE unrolled_shift(n_cnt.n, s1)
                           IN  cg_goto(cd, s2)

cg_shift_right_logical(node, dd, cd, st) ==
    IF st.err THEN st
    ELSE IF Len(node.items) < 3 THEN Raise(st)
    ELSE LET e == node.items[2]
             cnt == node.items[3]
         IN  \* starts_with_decimal_digit(cnt) subscripts cnt: a TypeError on a Pair
             IF is_pair(cnt) THEN Raise(st)
             ELSE LET literal == starts_with_decimal_digit(cnt.tok)
                      n_cnt == to_number(cnt.tok)
                  IN  IF literal /\ ~n_cnt.ok THEN Raise(st)
                      ELSE LET s1 == cg_form(e, DD_HL, Cd(CD_NEXT), st)
                               s2 == IF ~literal THEN do_variable_shift(cnt, FALSE, s1)
                                     ELSE IF n_cnt.n > 4 THEN do_variable_shift(cnt, TRUE, s1)
                                     ELSE unrolled_shift(n_cnt.n, s1)
                           IN  cg_goto(cd, s2)

\* cg_form on an atomic token
cg_atom(tok, dd, cd, st) ==
    IF starts_with_decimal_digit(tok) THEN
        LET n == to_number(tok)
        IN  IF ~n.ok THEN Raise(st)
            ELSE IF dd \in {DD_A, DD_B, DD_BC, DD_DE, DD_HL}
                 THEN cg_goto(cd, cg_ld16(dd, Dec(n.n), st))
                 ELSE Raise(st)
    ELSE IF tok[1] = "-" THEN
        LET n == to_number(Tail(tok))
        IN  IF ~n.ok THEN Raise(st)
            ELSE IF dd \in {DD_A, DD_B, DD_BC, DD_DE, DD_HL}
                 THEN cg_goto(cd, cg_ld16(dd, Dec(0 - n.n), st))
                 ELSE Raise(st)
    ELSE IF InSeq(tok, st.globals) THEN cg_goto(cd, cg_ld16_gv(dd, tok, st))
    ELSE Raise(st)

\* the statement list a do form hands to cg_statements, with the control
\* destination cg_form gives it
cg_do(node, dd, cd, st) == cg_statements(Tail(node.items), dd, Cd(CD_RET), st)

cg_form(node, dd, cd, st) ==
    IF st.err THEN st
    ELSE IF dd = DD_ZFLAG THEN
        cg_goto(cd,
          asm(<<>>, "OR", <<"A", ",", "H">>,
            asm(<<>>, "LD", <<"A", ",", "L">>,
              cg_form(node, DD_HL, Cd(CD_NEXT), st))))
    ELSE IF is_pair(node) THEN
        LET car == node.items[1]
        IN  IF car.k = "atom" /\ Len(car.tok) = 1 /\ car.tok[1] \in BinOps
                THEN cg_binop(car.tok[1], node, dd, cd, st)
            ELSE IF IsSym(car, <<"i", "n", "t", "1", "6">>) THEN declare_variables(node, st)
            ELSE IF IsSym(car, <<"s", "e", "t">>) THEN cg_set_var(node, dd, cd, st)
            ELSE IF IsSym(car, <<"i", "f">>) THEN cg_if(node, dd, cd, st)
            ELSE IF IsSym(car, <<"s", "u", "b">>) THEN cg_sub(node, dd, Cd(CD_RET), st)
            ELSE IF IsSym(car, <<"d", "o">>) THEN cg_do(node, dd, cd, st)
            ELSE IF IsSym(car, <<"@">>) THEN cg_address_of(node, dd, cd, st)
            ELSE IF IsSym(car, <<"p", "o", "k", "e">>) THEN cg_poke(node, dd, cd, st)
            ELSE IF IsSym(car, <<"p", "e", "e", "k">>) THEN cg_peek(node, dd, cd, st)
            ELSE IF IsSym(car, <<"o", "u", "t", "p", "u", "t">>) THEN cg_output(node, dd, cd, st)
            ELSE IF IsSym(car, <<"i", "n", "p", "u", "t">>) THEN cg_input(node, dd, cd, st)
            ELSE IF IsSym(car, <<"h", "i", "g", "h", "b", "y", "t", "e">>)
                THEN cg_highbyte(node, dd, cd, st)
            ELSE IF IsSym(car, <<"l", "o", "w", "b", "y", "t", "e">>)
                THEN cg_lowbyte(node, dd, cd, st)
            ELSE IF IsSym(car, <<">", ">">>) THEN cg_shift_right_logical(node, dd, cd, st)
            ELSE IF IsSym(car, <<"<", "<">>) THEN cg_shift_left(node, dd, cd, st)
            ELSE IF ~(car.k = "atom" /\ InSeq(car.tok, st.globals)) THEN Raise(st)
            ELSE IF Tail(node.items) # <<>> THEN Raise(st)
            ELSE cg_call_libfn(car.tok, cd, st)
    ELSE cg_atom(node.tok, dd, cd, st)

\* ---------------------------------------------------------------- inputs
MaxForms == 2

X == <<"X">>
Foo == <<"f", "o", "o">>
L100 == <<"L", "1", "0", "0">>

Sym(c) == Atom(<<c>>)
Num(n) == Atom(Dec(n))
Kw_if == Atom(<<"i", "f">>)
Kw_do == Atom(<<"d", "o">>)
Kw_sub == Atom(<<"s", "u", "b">>)
Kw_set == Atom(<<"s", "e", "t">>)
Kw_int16 == Atom(<<"i", "n", "t", "1", "6">>)
Kw_shr == Atom(<<">", ">">>)
Kw_word == Atom(<<"w", "o", "r", "d">>)
Kw_byte == Atom(<<"b", "y", "t", "e">>)
Kw_poke == Atom(<<"p", "o", "k", "e">>)
Kw_peek == Atom(<<"p", "e", "e", "k">>)
Kw_output == Atom(<<"o", "u", "t", "p", "u", "t">>)
Kw_input == Atom(<<"i", "n", "p", "u", "t">>)

\* declarations, the forms that set a program up
SetupForms ==
    { List(<<Kw_int16, Atom(X)>>),
      List(<<Kw_int16, Atom(L100)>>),
      List(<<Kw_sub, Atom(Foo), List(<<Kw_set, Atom(X), Num(5)>>)>>),
      List(<<Kw_sub, Atom(X)>>) }

ShiftForms ==
    { List(<<Kw_shr, e, c>>) :
        e \in {Atom(X), Num(7)},
        c \in {Num(0), Num(1), Num(3), Num(4), Num(5), Atom(<<"0", "x", "6">>),
               Atom(<<"0", "9">>), Atom(X)} }

BinopForms ==
    { List(<<Sym("+"), Atom(X), Num(1)>>),
      List(<<Sym("+"), List(<<Sym("-"), Num(1), Num(2)>>), Num(3)>>),
      List(<<Sym("&"), Num(1), List(<<Sym("|"), Num(2), Atom(X)>>)>>),
      List(<<Sym("^"), List(<<Sym("+"), Num(1), Num(2)>>),
                       List(<<Sym("/"), Num(3), Num(4)>>)>>),
      List(<<Sym("*"), List(<<Sym("/"), List(<<Sym("-"), Num(101), Num(32)>>), Num(180)>>),
                       Num(100)>>),
      List(<<Sym("*"), Num(1), Num(2)>>) }

IfForms ==
    { List(<<Kw_if, Atom(X), Num(1), Num(2)>>),
      List(<<Kw_if, Num(1), Num(2)>>),
      List(<<Kw_if, Num(1), Num(2), Num(3)>>),
      List(<<Kw_if, Atom(X), List(<<Atom(Foo)>>)>>),
      List(<<Kw_if, Num(1), List(<<Kw_if, Num(2), Num(3)>>), Num(4)>>),
      List(<<Kw_if, Num(1), List(<<Kw_shr, Num(2), Atom(<<"-", "1">>)>>),
                            List(<<Kw_if, Num(3), Num(4), Num(5)>>)>>),
      List(<<Kw_if, Num(0), List(<<Kw_do, Num(1)>>), Num(2)>>),
      List(<<Kw_if, Num(1), List(<<Kw_int16, Atom(L100)>>)>>) }

DoForms ==
    { List(<<Kw_do>>),
      List(<<Kw_do, Num(1)>>),
      List(<<Kw_do, Num(1), Num(2)>>),
      List(<<Kw_do, List(<<Kw_int16, Atom(X)>>), List(<<Kw_set, Atom(X), Num(1)>>),
             List(<<Sym("+"), Atom(X), Num(1)>>)>>),
      List(<<Kw_do, List(<<Kw_if, Num(1), Num(2)>>),
             List(<<Kw_if, Num(3), Num(4), Num(5)>>)>>),
      List(<<Kw_do, List(<<Kw_int16, Atom(X)>>), List(<<Kw_if, Atom(X), Num(1), Num(2)>>)>>) }

OtherForms ==
    { List(<<Kw_int16, Atom(X), Atom(X)>>),
      List(<<Kw_int16>>),
      List(<<Kw_sub, Atom(L100), List(<<Kw_if, Num(1), Num(2)>>)>>),
      List(<<Kw_set, Atom(X), List(<<Kw_do, Num(1)>>)>>),
      List(<<Atom(Foo)>>),
      List(<<Kw_poke, Kw_word, Atom(X), Num(2)>>),
      List(<<Kw_poke, Kw_word, List(<<Sym("+"), Atom(X), Num(1)>>), Num(2)>>),
      List(<<Kw_poke, Kw_byte, Num(1), Num(2)>>),
      List(<<Kw_output, Kw_word, List(<<Sym("+"), Num(1), Num(2)>>), Num(3)>>),
      List(<<Kw_output, Kw_word, Num(1), List(<<Kw_do, List(<<Sym("*"), Num(1), Num(2)>>)>>)>>),
      List(<<Kw_output, Kw_byte, Num(1), Num(2)>>),
      List(<<Kw_input, Kw_word, Num(1)>>),
      List(<<Kw_input, Kw_byte, Atom(X)>>),
      List(<<Kw_peek, Kw_word, Atom(X)>>),
      List(<<Kw_peek, Kw_byte, Num(1)>>),
      List(<<Atom(<<"h", "i", "g", "h", "b", "y", "t", "e">>), Num(1)>>),
      List(<<Atom(<<"l", "o", "w", "b", "y", "t", "e">>), Atom(X)>>),
      List(<<Atom(<<"<", "<">>), Num(1), Num(2)>>),
      List(<<Sym("@"), Atom(X)>>),
      Atom(X), Num(5), Atom(<<"-", "3">>), Atom(<<"0", "x", "1", "F">>) }

\* the top-level forms a program is made of
TopForms == SetupForms \cup ShiftForms \cup BinopForms \cup IfForms \cup DoForms
            \cup OtherForms

\* the destinations a caller inside the generator passes to cg_form
CallDD == {DD_A, DD_BC, DD_DE, DD_HL}
CallCD == {"ret", "next", "label"}

\* ---------------------------------------------------------------- machine
State == [listing |-> listing, globals |-> globals, next_label |-> next_label,
          err |-> err, branches |-> branches]

NoCall == [made |-> FALSE, node |-> Atom(<<>>), dd |-> DD_HL, cd |-> Cd(CD_RET),
           pre |-> [listing |-> <<>>, globals |-> <<>>, next_label |-> CD_LABEL - 1,
                    err |-> FALSE, branches |-> {}]]

\* Compiler.__init__; the listing is None until main creates it
Init ==
    /\ pc = "new"
    /\ nforms = 0
    /\ listing = <<>>
    /\ globals = <<>>
    /\ next_label = CD_LABEL - 1
    /\ err = FALSE
    /\ branches = {}
    /\ call = NoCall

\* main: self.assembly_listing = []
MainBegin ==
    /\ pc = "new"
    /\ pc' = "forms"
    /\ listing' = <<>>
    /\ UNCHANGED <<nforms, globals, next_label, err, branches, call>>

\* main creating the listing anew for every form
Called_fresh_listing(node, dd, cd, pre) ==
    LET r == cg_form(node, dd, cd, [pre EXCEPT !.listing = <<>>])
    IN  /\ listing' = r.listing
        /\ globals' = r.globals
        /\ next_label' = r.next_label
        /\ err' = r.err
        /\ branches' = r.branches
        /\ call' = [made |-> TRUE, node |-> node, dd |-> dd, cd |-> cd, pre |-> pre]

\* the state after cg_form(node, dd, cd) run in state pre
Called(node, dd, cd, pre) ==
    LET r == cg_form(node, dd, cd, pre)
    IN  /\ listing' = r.listing
        /\ globals' = r.globals
        /\ next_label' = r.next_label
        /\ err' = r.err
        /\ branches' = r.branches
        /\ call' = [made |-> TRUE, node |-> node, dd |-> dd, cd |-> cd, pre |-> pre]

\* main: one turn of "for node in tree: self.cg_form(node, DD_HL, CD_RET)";
\* an exception leaves main
MainForm(forms) ==
    /\ pc = "forms"
    /\ nforms < MaxForms
    /\ nforms' = nforms + 1
    /\ \E node \in forms :
        /\ Called(node, DD_HL, Cd(CD_RET), State)
        /\ pc' = IF err' THEN "raised" ELSE "forms"

\* main: the tree is exhausted and the listing is printed
MainPrint ==
    /\ pc = "forms"
    /\ pc' = "printed"
    /\ UNCHANGED <<nforms, listing, globals, next_label, err, branches, call>>

\* A call cg_form(node, dd, cd) made the way the generator's own callers make
\* it: any register destination, and a control destination that is RET, NEXT
\* or a label the caller has just taken from make_label.
FormCall ==
    /\ pc = "forms"
    /\ \E node \in TopForms, dd \in CallDD, k \in CallCD :
        LET pre == IF k = "label" THEN make_label(State) ELSE State
            cd == IF k = "ret" THEN Cd(CD_RET)
                  ELSE IF k = "next" THEN Cd(CD_NEXT)
                  ELSE Cd(NewLabel(State))
        IN  /\ Called(node, dd, cd, pre)
            /\ pc' = IF err' THEN "raised" ELSE "called"
    /\ UNCHANGED nforms

Next == MainBegin \/ MainForm(TopForms) \/ MainPrint

Spec == Init /\ [][Next]_vars

NextForm == MainBegin \/ MainForm(SetupForms) \/ FormCall \/ MainPrint

SpecForm == Init /\ [][NextForm]_vars

\* ---------------------------------------------------------------- properties
IsPrefix(a, b) == Len(a) <= Len(b) /\ SubSeq(b, 1, Len(a)) = a

\* the lines the last cg_form call appended
Seg == SubSeq(listing, Len(call.pre.listing) + 1, Len(listing))

CountLines(lines, mnem) == Cardinality({i \in 1..Len(lines) : lines[i].mnem = mnem})

IsDigit(c) == c \in {"0", "1", "2", "3", "4", "5", "6", "7", "8", "9"}

\* a text of the form L<id>
IsLocalLabel(t) == Len(t) >= 2 /\ t[1] = "L" /\ \A i \in 2..Len(t) : IsDigit(t[i])

\* the label an operand names: "Z,<target>" or "<target>"
JumpTarget(t) ==
    IF Len(t) >= 2 /\ t[1] = "Z" /\ t[2] = "," THEN SubSeq(t, 3, Len(t)) ELSE t

IsLocalJump(line) ==
    /\ line.kind = "ins"
    /\ line.mnem \in {"JP", "JZ", "DJNZ"}
    /\ IsLocalLabel(JumpTarget(line.text))

\* C1: in the listing of a program that generated without an error, every
\* JP / JP Z, / JZ / DJNZ whose operand names a local label L<id> has a label
\* line L<id>: somewhere in the listing.
C1_JumpsHaveLabels ==
    ~err =>
        \A i \in 1..Len(listing) :
            IsLocalJump(listing[i]) =>
                \E j \in 1..Len(listing) :
                    listing[j] = LabelLine(JumpTarget(listing[i].text))

\* a successful program whose listing holds the jumps of a three-branch if
\* (JP Z,L and JP L) and of a guarded shift loop (JZ L and DJNZ L)
C1_Witness ==
    /\ ~err
    /\ \E i \in 1..Len(listing) :
          IsLocalJump(listing[i]) /\ listing[i].mnem = "JP" /\ listing[i].text[1] = "Z"
    /\ \E i \in 1..Len(listing) :
          IsLocalJump(listing[i]) /\ listing[i].mnem = "JP" /\ listing[i].text[1] = "L"
    /\ \E i \in 1..Len(listing) : IsLocalJump(listing[i]) /\ listing[i].mnem = "JZ"
    /\ \E i \in 1..Len(listing) : IsLocalJump(listing[i]) /\ listing[i].mnem = "DJNZ"

\* C2: in the listing of a program that generated without an error no label
\* line NAME: appears twice, whatever the declared names are.
C2_LabelsUnique ==
    ~err =>
        \A i, j \in 1..Len(listing) :
            (listing[i].kind = "label" /\ listing[j].kind = "label"
                /\ listing[i].text = listing[j].text) => i = j

IsTransfer(line) == line.kind = "ins" /\ line.mnem \in {"RET", "JP"}

\* C3: a successful cg_form(e, dd, CD_RET) appends at least one line and the
\* last line it appends is RET, a conditional RET or a JP.
C3_RetEndsInTransfer ==
    (call.made /\ ~err /\ call.cd = Cd(CD_RET)) =>
        (Seg # <<>> /\ IsTransfer(Seg[Len(Seg)]))

\* in every prefix of lines there are at least as many PUSH as POP
PushCoversPop(lines) ==
    \A k \in 0..Len(lines) :
        CountLines(SubSeq(lines, 1, k), "PUSH") >= CountLines(SubSeq(lines, 1, k), "POP")

\* C4: at every point of the listing the PUSH lines so far are at least the
\* POP lines, and the lines a successful cg_form call appended hold as many
\* PUSH as POP, every POP after its PUSH.
C4_PushPopBalanced ==
    /\ PushCoversPop(listing)
    /\ (call.made /\ ~err) =>
          /\ CountLines(Seg, "PUSH") = CountLines(Seg, "POP")
          /\ PushCoversPop(Seg)

\* a successful call that pushed twice before it popped (nested operands)
C4_Witness ==
    /\ call.made /\ ~err
    /\ \E i \in 1..(Len(Seg) - 1) :
          /\ Seg[i].mnem = "PUSH"
          /\ \E j \in (i + 1)..Len(Seg) :
                /\ Seg[j].mnem = "PUSH"
                /\ \A m \in i..j : Seg[m].mnem # "POP"
    /\ CountLines(Seg, "POP") = 2

\* C5: in every step of a main call the symbol table and the listing are
\* extended (the old value is a prefix of the new one) and the label counter
\* does not decrease.
C5_Monotonic ==
    [][/\ IsPrefix(globals, globals')
       /\ IsPrefix(listing, listing')
       /\ next_label' >= next_label]_vars

\* the second form of a program has grown all three on top of what the first
\* form left
C5_Witness ==
    /\ nforms = 2 /\ call.made
    /\ call.pre.listing # <<>> /\ call.pre.globals # <<>>
    /\ call.pre.next_label > CD_LABEL - 1
    /\ Len(listing) > Len(call.pre.listing)
    /\ Len(globals) > Len(call.pre.globals)
    /\ next_label > call.pre.next_label

NoDuplicates(s) == \A i, j \in 1..Len(s) : s[i] = s[j] => i = j

\* the names an int16 or sub form declares, in order
DeclaredNames(node) ==
    IF ~is_pair(node) THEN <<>>
    ELSE IF IsSym(node.items[1], <<"i", "n", "t", "1", "6">>)
         THEN [i \in 1..(Len(node.items) - 1) |-> node.items[i + 1].tok]
    ELSE IF IsSym(node.items[1], <<"s", "u", "b">>) /\ Len(node.items) >= 2
         THEN <<node.items[2].tok>>
    ELSE <<>>

\* C6: the symbol table never holds a name twice, and an int16 or sub form
\* that names a symbol already in the table, or names one symbol twice, ends
\* in an error.
C6_GlobalsUnique ==
    /\ NoDuplicates(globals)
    /\ (call.made /\ ~NoDuplicates(call.pre.globals \o DeclaredNames(call.node))) => err

\* a sub naming a declared variable, and an int16 naming one name twice,
\* were rejected
C6_Witness ==
    /\ call.made /\ err /\ globals # <<>>
    /\ DeclaredNames(call.node) # <<>>
    /\ ~NoDuplicates(call.pre.globals \o DeclaredNames(call.node))

\* the lines that realize a control destination RET, NEXT or LABEL(id)
CdLines(cd) ==
    IF cd = Cd(CD_RET) THEN <<InsLine("RET", <<>>)>>
    ELSE IF cd = Cd(CD_NEXT) THEN <<>>
    ELSE <<InsLine("JP", LabelText(cd[1]))>>

RECURSIVE ShiftPairs(_)
ShiftPairs(n) ==
    IF n = 0 THEN <<>>
    ELSE <<InsLine("SRL", <<"H">>), InsLine("RL", <<"L">>)>> \o ShiftPairs(n - 1)

\* Lk: SRL H; RL L; DJNZ Lk
ShiftLoop(k) ==
    <<LabelLine(LabelText(k)), InsLine("SRL", <<"H">>), InsLine("RL", <<"L">>),
      InsLine("DJNZ", LabelText(k))>>

\* what (>> EXPR COUNT) is to emit after EXPR, for the first free label id k
ShiftExpected(cnt, k) ==
    IF IsDigit(cnt[1]) THEN
        LET n == to_number(cnt).n
        IN  IF n = 0 THEN <<>>
            ELSE IF n <= 4 THEN ShiftPairs(n)
            ELSE <<InsLine("LD", Comma(<<"B">>, Dec(n)))>> \o ShiftLoop(k)
    ELSE <<InsLine("LD", Comma(<<"A">>, Paren(cnt))), InsLine("LD", <<"B", ",", "A">>),
           InsLine("LD", <<"A", ",", "B">>), InsLine("OR", <<"A", ",", "A">>),
           InsLine("JZ", LabelText(k + 1))>>
         \o ShiftLoop(k) \o <<LabelLine(LabelText(k + 1))>>

\* C7: after EXPR is loaded into HL, (>> EXPR COUNT) emits nothing for a
\* literal 0, n pairs SRL H; RL L for a literal n in 1..4, the loop without a
\* guard for a literal >= 5, and the guarded loop closed by Lskip: for a
\* symbol; the control destination follows.
C7_ShiftForms ==
    (call.made /\ ~err /\ call.node \in ShiftForms) =>
        LET p == cg_form(call.node.items[2], DD_HL, Cd(CD_NEXT), call.pre)
        IN  listing = p.listing
                      \o ShiftExpected(call.node.items[3].tok, p.next_label + 1)
                      \o CdLines(call.cd)

\* a shift by a symbol was generated: guard, loop and skip label are there
C7_Witness ==
    /\ call.made /\ ~err /\ call.node \in ShiftForms
    /\ ~IsDigit(call.node.items[3].tok[1])
    /\ \E i \in 1..Len(Seg) : Seg[i].mnem = "JZ"
    /\ Seg[Len(Seg)].mnem = "JP"

IsIf2(node) ==
    is_pair(node) /\ IsSym(node.items[1], <<"i", "f">>) /\ Len(node.items) = 3

\* the predicate of an if, generated into the Z flag, from state st
PredIntoZ(pred, st) ==
    asm(<<>>, "OR", <<"A", ",", "H">>,
      asm(<<>>, "LD", <<"A", ",", "L">>, cg_form(pred, DD_HL, Cd(CD_NEXT), st)))

\* C8: a two-branch if generated with cd = RET appends the predicate, RET Z
\* and CONSEQ generated with cd = RET, and nothing else: no JP Z,L<id> to its
\* false label and no label line of its own.
C8_IfRetFolds ==
    (call.made /\ ~err /\ IsIf2(call.node) /\ call.cd = Cd(CD_RET)) =>
        LET label_false == call.pre.next_label + 1
            s0 == [call.pre EXCEPT !.next_label = @ + 2]
            p == PredIntoZ(call.node.items[2], s0)
            z == asm(<<>>, "RET", <<"Z">>, p)
            c == cg_form(call.node.items[3], DD_HL, Cd(CD_RET), z)
        IN  /\ listing = c.listing
            /\ listing[Len(p.listing) + 1] = InsLine("RET", <<"Z">>)
            /\ \A i \in 1..Len(Seg) :
                  Seg[i] # InsLine("JP", Comma(<<"Z">>, LabelText(label_false)))

\* a two-branch if was generated with cd = RET
C8_Witness ==
    /\ call.made /\ ~err /\ IsIf2(call.node) /\ call.cd = Cd(CD_RET)
    /\ \E i \in 1..Len(Seg) : Seg[i] = InsLine("RET", <<"Z">>)

IsDo(node) == is_pair(node) /\ IsSym(node.items[1], <<"d", "o">>)

\* S1..Sn-1 generated with (HL, NEXT) and Sn with (dd, cd)
RECURSIVE StatementsWith(_, _, _, _)
StatementsWith(stmts, dd, cd, st) ==
    IF Len(stmts) = 1 THEN cg_form(stmts[1], dd, cd, st)
    ELSE StatementsWith(Tail(stmts), dd, cd, cg_form(stmts[1], DD_HL, Cd(CD_NEXT), st))

\* C9: (do S1 ... Sn) generated with (dd, cd) generates S1..Sn-1 with
\* (HL, NEXT) and Sn with exactly (dd, cd).
C9_DoKeepsDestinations ==
    (call.made /\ ~err /\ IsDo(call.node) /\ Len(call.node.items) >= 2) =>
        listing = StatementsWith(Tail(call.node.items), call.dd, call.cd, call.pre).listing

IsBinop(node) ==
    /\ is_pair(node) /\ Len(node.items) = 3
    /\ node.items[1].k = "atom" /\ Len(node.items[1].tok) = 1
    /\ node.items[1].tok[1] \in BinOps

\* B into HL, PUSH HL, A into HL, POP DE
OperandsPushed(node, st) ==
    cg_pop_de(cg_form(node.items[2], DD_HL, Cd(CD_NEXT),
        cg_push_hl(cg_form(node.items[3], DD_HL, Cd(CD_NEXT), st))))

\* B into DE, then A into HL
OperandsDirect(node, st) ==
    cg_form(node.items[2], DD_HL, Cd(CD_NEXT),
        cg_form(node.items[3], DD_DE, Cd(CD_NEXT), st))

OperandsFirst(node, pushed) ==
    LET want == IF pushed THEN OperandsPushed(node, call.pre)
                ELSE OperandsDirect(node, call.pre)
    IN  ~want.err /\ IsPrefix(want.listing, listing)

\* C10 as stated: (op A B) pushes when B, the second operand, is a pair and
\* generates B directly into DE when B is an atom.
C10_ChoiceBySecondOperand ==
    (call.made /\ ~err /\ IsBinop(call.node)) =>
        OperandsFirst(call.node, is_pair(call.node.items[3]))

\* C10 amended: (op A B) generates B into HL, PUSH HL, A into HL, POP DE when
\* A, the first operand, is a pair, and B directly into DE, then A into HL,
\* when A is an atom; the shape of B plays no part.
C10_ChoiceByFirstOperand ==
    (call.made /\ ~err /\ IsBinop(call.node)) =>
        OperandsFirst(call.node, is_pair(call.node.items[2]))

\* a binary operator whose operands differ in shape was generated
C10_Witness ==
    /\ call.made /\ ~err /\ IsBinop(call.node)
    /\ is_pair(call.node.items[3]) /\ ~is_pair(call.node.items[2])
    /\ CountLines(Seg, "PUSH") = 0

\* the ids make_label returned during the last cg_form call
IdsOfCall == (call.pre.next_label + 1)..next_label

\* the label lines of generated labels: L<id> lines that no declaration made
IsGeneratedLabelLine(i) ==
    /\ listing[i].kind = "label"
    /\ IsLocalLabel(listing[i].text)
    /\ ~InSeq(listing[i].text, globals)

\* every id handed out is at least `lowest`, ids only go up, and every
\* generated label line carries an id handed out so far, on one line only
LabelIdsFrom(lowest) ==
    /\ next_label >= CD_LABEL - 1
    /\ call.made => next_label >= call.pre.next_label
    /\ call.made => \A id \in IdsOfCall : id >= lowest
    /\ \A i \in 1..Len(listing) :
          IsGeneratedLabelLine(i) =>
              /\ \E id \in lowest..next_label : listing[i].text = LabelText(id)
              /\ \A j \in 1..Len(listing) : listing[j] = listing[i] => j = i

\* C11 as stated: every id make_label returns is strictly greater than
\* CD_LABEL, and ids strictly increase, so none is handed out twice.
C11_IdsAboveSentinel == LabelIdsFrom(CD_LABEL + 1)

\* C11 amended: every id make_label returns is at least CD_LABEL (the first
\* one is CD_LABEL itself), and ids strictly increase, so none is handed out
\* twice.
C11_IdsFromSentinel == LabelIdsFrom(CD_LABEL)

\* a program used several labels, the first of them L100
C11_Witness ==
    /\ ~err /\ call.made
    /\ Cardinality(IdsOfCall) >= 2
    /\ \E i \in 1..Len(listing) :
          IsGeneratedLabelLine(i) /\ listing[i].text = LabelText(CD_LABEL)
    /\ \E i \in 1..Len(listing) :
          IsGeneratedLabelLine(i) /\ listing[i].text = LabelText(CD_LABEL + 1)

IsIf(node) ==
    /\ is_pair(node) /\ IsSym(node.items[1], <<"i", "f">>)
    /\ Len(node.items) \in {3, 4}

\* an if whose CONSEQ and ALT are generated with data destination dd:
\* CONSEQ with cd (no alternate) or the end label, ALT with NEXT
IfBranchesWith(node, dd, cd, st) ==
    LET label_false == st.next_label + 1
        label_end == st.next_label + 2
        s1 == [st EXCEPT !.next_label = @ + 2]
        pred == node.items[2]
        conseq == node.items[3]
    IN  IF Len(node.items) = 3 THEN
            IF cd # Cd(CD_RET) THEN
                cg_goto(cd,
                  cg_emit_label(LabelText(label_false),
                    cg_form(conseq, dd, cd,
                      cg_form(pred, DD_ZFLAG, <<CD_NEXT, label_false>>, s1))))
            ELSE
                cg_form(conseq, dd, cd,
                  cg_form(pred, DD_ZFLAG, <<CD_NEXT, CD_RET>>, s1))
        ELSE
            LET p1 == cg_form(pred, DD_ZFLAG, <<CD_NEXT, label_false>>, s1)
                p2 == cg_form(conseq, dd, Cd(label_end), p1)
                p3 == cg_emit_label(LabelText(label_false), p2)
                p4 == cg_form(node.items[4], dd, Cd(CD_NEXT), p3)
                p5 == cg_emit_label(LabelText(label_end), p4)
            IN  cg_goto(cd, p5)

\* C12: (if PRED CONSEQ) and (if PRED CONSEQ ALT) generated with data
\* destination dd generate CONSEQ, and ALT when present, with that same dd;
\* CONSEQ receives cd without an alternate and the end label with one, and
\* ALT receives NEXT.
C12_IfPassesCallerDD ==
    (call.made /\ ~err /\ IsIf(call.node)) =>
        LET e == IfBranchesWith(call.node, call.dd, call.cd, call.pre)
        IN  ~e.err => listing = e.listing

\* a branch control destination that cg_goto's table handles
IsHandledBranch(b) ==
    /\ b[1] \in {CD_NEXT, CD_RET}
    /\ b[2] \in {CD_NEXT, CD_RET} \/ b[2] >= CD_LABEL

\* C13: every BRANCH(true, false) control destination that reaches cg_goto
\* while a program is generated is one of the six combinations of its table:
\* true in {NEXT, RET}, false in {NEXT, RET, a label}. A branch whose true
\* side is a label is never produced.
C13_BranchesHandled == \A b \in branches : Len(b) = 2 /\ IsHandledBranch(b)

\* a program whose ifs sent both a (NEXT, RET) and a (NEXT, label) branch
\* to cg_goto
C13_Witness ==
    /\ ~err
    /\ <<CD_NEXT, CD_RET>> \in branches
    /\ \E b \in branches : b[1] = CD_NEXT /\ b[2] >= CD_LABEL

IsInputWord(node) ==
    /\ is_pair(node) /\ Len(node.items) = 3
    /\ node.items[1] = Kw_input /\ node.items[2] = Kw_word

\* the number of lines of `lines` that are one of the lines of `these`
CountOf(lines, these) ==
    Cardinality({i \in 1..Len(lines) : InSeq(lines[i], these)})

\* C14: (input word ADDR) with dd in {BC, DE, HL} generates the port address
\* into BC once and emits the transfer once: exactly two IN A,(C) with
\* exactly one INC BC between them, followed by a single realization of cd.
C14_InputWordOnce ==
    (call.made /\ ~err /\ IsInputWord(call.node)
               /\ call.dd \in {DD_BC, DD_DE, DD_HL}) =>
        LET a == cg_form(call.node.items[3], DD_BC, Cd(CD_NEXT), call.pre)
            t == SubSeq(listing, Len(a.listing) + 1, Len(listing))
            in_a == InsLine("IN", <<"A", ",", "(", "C", ")">>)
            inc == InsLine("INC", <<"B", "C">>)
            ins == {i \in 1..Len(t) : t[i] = in_a}
            goto == CdLines(call.cd)
        IN  /\ IsPrefix(a.listing, listing)
            /\ Cardinality(ins) = 2
            /\ CountOf(t, <<inc>>) = 1
            /\ \A i, j \in ins :
                  i < j => \E k \in (i + 1)..(j - 1) : t[k] = inc
            /\ CountOf(t, goto) = Len(goto)
            /\ SubSeq(t, Len(t) - Len(goto) + 1, Len(t)) = goto

IsAdd(node) == IsBinop(node) /\ node.items[1] = Sym("+")

\* C15: (+ A B) realizes its control destination exactly once for every dd:
\* after the operands, the addition code is followed by exactly one RET for
\* cd = RET, exactly one JP L<id> for a label and no transfer for NEXT, on
\* the ADD HL,DE path (dd = HL) and on the byte-wise path (dd # HL) alike.
C15_AddRealizesCdOnce ==
    (call.made /\ ~err /\ IsAdd(call.node)) =>
        LET ops == binop_operands(call.node, call.pre)
            t == SubSeq(listing, Len(ops.listing) + 1, Len(listing))
            goto == CdLines(call.cd)
        IN  /\ IsPrefix(ops.listing, listing)
            /\ Cardinality({i \in 1..Len(t) : IsTransfer(t[i])}) = Len(goto)
            /\ SubSeq(t, Len(t) - Len(goto) + 1, Len(t)) = goto

====
